---------------------------- MODULE Spec2Model ----------------------------
(***************************************************************************)
(* A model of visualizations.py, the MovieNow chart generator.             *)
(*                                                                         *)
(* The program is sequential: module import (style selection), the         *)
(* __main__ block, the MovieNowVisualizer constructor (dataset builder and *)
(* output directory), the orchestrator generate_all_visualizations with    *)
(* its five generators, and the closing summary.  The state is the         *)
(* instance's five tables, numpy's global random state, the console, the   *)
(* output directory with its files, and the program position.              *)
(*                                                                         *)
(* Decimal literals of the source are kept as scaled integers: ratings in  *)
(* tenths (7.2 -> 72), prices and revenue per customer in hundredths       *)
(* (4.50 -> 450).  Scaling a column by a positive factor changes neither   *)
(* its ranks nor its min-max normalisation.  A quotient is kept as the     *)
(* pair <<numerator, denominator>>; a rank as twice its value, so that an  *)
(* averaged rank such as 1.5 is the integer 3.                             *)
(***************************************************************************)
EXTENDS Integers, Sequences, FiniteSets, TLC

VARIABLES
    pc,                 \* position of the program
    style_available,    \* the styles matplotlib can load (the environment)
    style,              \* the style applied by plt.style.use
    style_tried,        \* the styles passed to plt.style.use, oldest first
    console,            \* lines printed so far, oldest first
    rng,                \* numpy's global random state
    country_kpis, genre_performance, customer_segments,
    monthly_trends, actor_analysis,     \* self.<table>
    dir_exists,         \* does the directory 'visualizations' exist
    files,              \* paths of the files in the output directory
    written,            \* writes of this run: <<[path, by]>>, oldest first
    calls,              \* generators invoked in this run, oldest first
    returned,           \* generators that returned in this run, oldest first
    raised,             \* the generator whose failure is propagating, or "none"
    reads,              \* [generator -> set of tables it has read]
    normalized_matrix,  \* local of create_country_performance_dashboard
    rankings,           \* local of create_genre_analysis
    summary_tables,     \* tables whose len() the summary block has printed
    run,                \* number of the current execution of the program
    prev_monthly_trends \* monthly_trends as built by the previous execution

vars == <<pc, style_available, style, style_tried, console, rng, country_kpis,
          genre_performance, customer_segments, monthly_trends,
          actor_analysis, dir_exists, files, written, calls, returned,
          raised, reads, normalized_matrix, rankings, summary_tables, run,
          prev_monthly_trends>>

tables == <<country_kpis, genre_performance, customer_segments,
            monthly_trends, actor_analysis>>

-----------------------------------------------------------------------------
(* Bounds of the model.                                                    *)

\* executions of the program in one behaviour (a re-run keeps the files)
MaxRuns == 2
\* size of the random generator's state space
RngStates == 5
\* generator calls a client makes on one instance
MaxCalls == 3
\* rows and largest value of an arbitrary column
MaxRows == 4
MaxVal == 3

-----------------------------------------------------------------------------
(* Sequences and columns.                                                  *)

Range(s) == {s[i] : i \in DOMAIN s}

ColMin(col) == CHOOSE m \in Range(col) : \A v \in Range(col) : m <= v
ColMax(col) == CHOOSE m \in Range(col) : \A v \in Range(col) : v <= m

\* len(df): the number of rows, the length of the frame's columns
DfLen(df) == LET c == CHOOSE k \in DOMAIN df : TRUE IN Len(df[c])

\* ndarray.astype(int) truncates toward zero; n / d as a truncated integer
TruncDiv(n, d) == IF n >= 0 THEN n \div d ELSE -((-n) \div d)

-----------------------------------------------------------------------------
(* numpy's global random generator.  The generator is a deterministic      *)
(* function of its state: seeding fixes the state, every draw advances it  *)
(* and returns a deviate computed from the new state.                      *)

\* np.random.seed(n)
Seed(n) == n % RngStates

\* the state after k draws
RngAdvance(s, k) == (s + k) % RngStates

\* the standard deviate of state s, in units of 1 / RngStates
Deviate(s) == 2 * s - (RngStates - 1)

\* np.random.normal(loc, scale, n).astype(int), drawn from state s
NormalInts(s, loc, scale, n) ==
    [i \in 1..n |->
        TruncDiv(loc * RngStates + scale * Deviate(RngAdvance(s, i)), RngStates)]

-----------------------------------------------------------------------------
(* The dataset builder: the literals of setup_sample_data.                 *)

CountryKpis ==
    [country       |-> <<"USA", "Germany", "UK", "France", "Spain", "Belgium", "Canada">>,
     total_rentals |-> <<1250, 890, 720, 650, 580, 320, 420>>,
     avg_rating    |-> <<72, 78, 75, 71, 79, 81, 73>>,
     total_revenue |-> <<8750, 6230, 5040, 4550, 4060, 2240, 2940>>]

GenrePerformance ==
    [genre         |-> <<"Drama", "Comedy", "Action", "Horror", "Romance", "Thriller", "Sci-Fi">>,
     avg_rating    |-> <<81, 73, 69, 62, 78, 71, 75>>,
     total_rentals |-> <<980, 1200, 1100, 450, 680, 720, 380>>,
     avg_price     |-> <<450, 380, 420, 350, 410, 400, 480>>]

CustomerSegments ==
    [segment       |-> <<"High Value (10+ rentals)", "Regular (5-9 rentals)",
                         "Casual (1-4 rentals)", "At Risk (rating < 4)">>,
     customer_count |-> <<245, 680, 1420, 180>>,
     avg_revenue_per_customer |-> <<4520, 2850, 1280, 1560>>]

ActorAnalysis ==
    [nationality   |-> <<"USA", "UK", "Germany", "France", "Spain", "Italy">>,
     male_actors   |-> <<45, 32, 18, 15, 12, 8>>,
     female_actors |-> <<38, 28, 16, 13, 11, 7>>,
     avg_rating    |-> <<71, 76, 78, 73, 79, 74>>]

\* the range with its last month left out (an end date before the month end)
DateRange_end_exclusive(y1, y2) ==
    [i \in 1..(12 * (y2 - y1 + 1) - 1) |->
        [year |-> y1 + (i - 1) \div 12, month |-> ((i - 1) % 12) + 1]]

\* pd.date_range('<y1>-01-01', '<y2>-12-31', freq='M'): one entry per month
DateRange(y1, y2) ==
    [i \in 1..(12 * (y2 - y1 + 1)) |->
        [year |-> y1 + (i - 1) \div 12, month |-> ((i - 1) % 12) + 1]]

\* the frame of monthly trends built from random state s: the three columns
\* are drawn one after the other, each len(months) draws long
MonthlyTrends(s) ==
    LET months == DateRange(2018, 2019)
        n      == Len(months)
    IN  [month         |-> months,
         rentals       |-> NormalInts(s, 800, 150, n),
         revenue       |-> NormalInts(RngAdvance(s, n), 5600, 1050, n),
         new_customers |-> NormalInts(RngAdvance(s, 2 * n), 45, 12, n)]

\* the builder without np.random.seed(42): it draws from the state it finds
SeededState_unseeded(s) == s

\* the random state in which setup_sample_data draws, given the state s it
\* is entered with
SeededState(s) == Seed(42)

\* an attribute the constructor has not set yet
Unset == [index |-> << >>]

setup_sample_data ==
    /\ country_kpis' = CountryKpis
    /\ genre_performance' = GenrePerformance
    /\ customer_segments' = CustomerSegments
    /\ monthly_trends' = MonthlyTrends(SeededState(rng))
    /\ rng' = RngAdvance(SeededState(rng), 3 * Len(DateRange(2018, 2019)))
    /\ actor_analysis' = ActorAnalysis

create_output_directory ==
    IF ~dir_exists THEN dir_exists' = TRUE ELSE UNCHANGED dir_exists

-----------------------------------------------------------------------------
(* The derived statistics of the generators.                               *)

NumericColumns(df, names) == [c \in names |-> df[c]]

\* the normalisation dividing by the maximum instead of the range
MinMaxNormalize_by_max(col) ==
    [i \in DOMAIN col |-> <<col[i] - ColMin(col), ColMax(col)>>]

\* (m - m.min()) / (m.max() - m.min()), column by column; each entry is
\* the quotient <<numerator, denominator>> (0/0, a NaN, when all are equal)
MinMaxNormalize(col) ==
    [i \in DOMAIN col |-> <<col[i] - ColMin(col), ColMax(col) - ColMin(col)>>]

NormalizeFrame(m) == [c \in DOMAIN m |-> MinMaxNormalize(m[c])]

\* the ranking with pandas' default ascending=True
RankDescending_ascending(col) ==
    [i \in DOMAIN col |->
        LET g == Cardinality({j \in DOMAIN col : col[j] < col[i]})
            e == Cardinality({j \in DOMAIN col : col[j] = col[i]})
        IN  2 * g + e + 1]

\* Series.rank(ascending=False) with the default method 'average': a value
\* preceded by g larger values and tied in a group of e values occupies the
\* positions g+1..g+e and gets their mean g + (e+1)/2; twice that is kept
RankDescending(col) ==
    [i \in DOMAIN col |->
        LET g == Cardinality({j \in DOMAIN col : col[j] > col[i]})
            e == Cardinality({j \in DOMAIN col : col[j] = col[i]})
        IN  2 * g + e + 1]

RankFrame(m) == [c \in DOMAIN m |-> RankDescending(m[c])]

-----------------------------------------------------------------------------
(* Names, paths and console lines.                                         *)

PreferredStyles == {"seaborn-v0_8", "seaborn"}

TableNames == {"country_kpis", "genre_performance", "customer_segments",
               "monthly_trends", "actor_analysis"}

GeneratorNames == {"create_country_performance_dashboard",
                   "create_genre_analysis",
                   "create_customer_segmentation_viz",
                   "create_temporal_analysis",
                   "create_interactive_dashboard"}

CountryPng == "visualizations/country_performance_dashboard.png"
GenrePng == "visualizations/genre_analysis.png"
SegmentationPng == "visualizations/customer_segmentation.png"
TemporalPng == "visualizations/temporal_analysis.png"
InteractiveHtml == "visualizations/interactive_dashboard.html"

StyleNote == "Note: Using default matplotlib style. For better visuals, consider updating matplotlib/seaborn."
Separator == "=================================================="
GeneratingMsg == "Generating MovieNow Business Intelligence Visualizations..."
\* the progress messages with the last two numbers exchanged
ProgressMsg_misnumbered ==
    <<"1. Creating Country Performance Dashboard...",
      "2. Creating Genre Analysis...",
      "3. Creating Customer Segmentation...",
      "5. Creating Temporal Analysis...",
      "4. Creating Interactive Dashboard...">>

ProgressMsg ==
    <<"1. Creating Country Performance Dashboard...",
      "2. Creating Genre Analysis...",
      "3. Creating Customer Segmentation...",
      "4. Creating Temporal Analysis...",
      "5. Creating Interactive Dashboard...">>
InteractiveSavedMsg == "Interactive dashboard saved as 'visualizations/interactive_dashboard.html'"
SuccessMsg == "All visualizations generated successfully!"
FilesSavedMsg == "Files saved in 'visualizations/' directory:"
FileListing ==
    <<"- country_performance_dashboard.png",
      "- genre_analysis.png",
      "- customer_segmentation.png",
      "- temporal_analysis.png",
      "- interactive_dashboard.html">>
SummaryTitle == "MOVIENOW BUSINESS INTELLIGENCE - SUMMARY STATS"

\* print(a); print(b); ... one call after the other: the lines are appended
Emit(lines) == console' = console \o lines

-----------------------------------------------------------------------------
(* Module import: the style selection.                                     *)

\* the selection printing its note in the first handler, as soon as the
\* first style is unavailable
select_style_note_early ==
    /\ \/ /\ pc = "style1"
          /\ style_tried' = Append(style_tried, "seaborn-v0_8")
          /\ IF "seaborn-v0_8" \in style_available
                THEN style' = "seaborn-v0_8" /\ pc' = "main"
                     /\ UNCHANGED console
                ELSE UNCHANGED style /\ pc' = "style2"
                     /\ Emit(<<StyleNote>>)
       \/ /\ pc = "style2"
          /\ style_tried' = Append(style_tried, "seaborn")
          /\ IF "seaborn" \in style_available
                THEN style' = "seaborn" /\ pc' = "main"
                ELSE UNCHANGED style /\ pc' = "style3"
          /\ UNCHANGED console
       \/ /\ pc = "style3"
          /\ style_tried' = Append(style_tried, "default")
          /\ style' = "default"
          /\ UNCHANGED console
          /\ pc' = "main"
    /\ UNCHANGED <<style_available, rng, tables, dir_exists, files, written,
                   calls, returned, raised, reads, normalized_matrix,
                   rankings, summary_tables, run, prev_monthly_trends>>

\* try: plt.style.use('seaborn-v0_8'); except OSError: try:
\* plt.style.use('seaborn'); except OSError: plt.style.use('default') and
\* the note.  A style that is not available makes plt.style.use raise
\* OSError, which the enclosing handler catches.
select_style ==
    /\ \/ /\ pc = "style1"
          /\ style_tried' = Append(style_tried, "seaborn-v0_8")
          /\ IF "seaborn-v0_8" \in style_available
                THEN style' = "seaborn-v0_8" /\ pc' = "main"
                ELSE UNCHANGED style /\ pc' = "style2"
          /\ UNCHANGED console
       \/ /\ pc = "style2"
          /\ style_tried' = Append(style_tried, "seaborn")
          /\ IF "seaborn" \in style_available
                THEN style' = "seaborn" /\ pc' = "main"
                ELSE UNCHANGED style /\ pc' = "style3"
          /\ UNCHANGED console
       \/ /\ pc = "style3"
          /\ style_tried' = Append(style_tried, "default")
          /\ style' = "default"
          /\ Emit(<<StyleNote>>)
          /\ pc' = "main"
    /\ UNCHANGED <<style_available, rng, tables, dir_exists, files, written,
                   calls, returned, raised, reads, normalized_matrix,
                   rankings, summary_tables, run, prev_monthly_trends>>

\* the lines check_available_styles prints: plt.style.available is sorted
check_available_styles ==
    <<"Available matplotlib styles:">> \o
    [i \in 1..Len(SelectSeq(<<"seaborn", "seaborn-v0_8">>,
                            LAMBDA st : st \in style_available)) |->
        "  - " \o SelectSeq(<<"seaborn", "seaborn-v0_8">>,
                            LAMBDA st : st \in style_available)[i]]

\* __main__, up to the construction of the visualizer
main_header ==
    /\ pc = "main"
    /\ Emit(<<"Checking matplotlib configuration...">>
             \o check_available_styles \o <<"", Separator>>)
    /\ pc' = "construct"
    /\ UNCHANGED <<style_available, style, style_tried, rng, tables, dir_exists, files,
                   written, calls, returned, raised, reads,
                   normalized_matrix, rankings, summary_tables, run,
                   prev_monthly_trends>>

\* MovieNowVisualizer(): the dataset builder, then the output directory;
\* os.makedirs may fail, and the failure leaves the constructor uncaught
MovieNowVisualizer_init ==
    /\ pc = "construct"
    /\ setup_sample_data
    /\ \/ /\ create_output_directory
          /\ pc' = "generate"
          /\ UNCHANGED raised
       \/ /\ ~dir_exists
          /\ UNCHANGED dir_exists
          /\ raised' = "create_output_directory"
          /\ pc' = "crashed"
    /\ UNCHANGED <<style_available, style, style_tried, console, files, written, calls,
                   returned, reads, normalized_matrix, rankings,
                   summary_tables, run, prev_monthly_trends>>

-----------------------------------------------------------------------------
(* The report generators.  Each one is entered, reads tables of the        *)
(* instance, computes its local statistics, writes its file and returns;   *)
(* a failing library call raises and the exception leaves the generator.   *)

\* entering generator g, which reads the tables tabs
Invoke(g, tabs) ==
    /\ calls' = Append(calls, g)
    /\ reads' = [reads EXCEPT ![g] = @ \cup tabs]

\* plt.savefig(path, ...) then plt.show(): the file is written and the
\* generator returns, or show raises after the write, or savefig raises
SaveAndShow(g, path) ==
    \/ /\ dir_exists
       /\ files' = files \cup {path}
       /\ written' = Append(written, [path |-> path, by |-> g])
       /\ returned' = Append(returned, g)
       /\ raised' = "none"
    \/ /\ dir_exists
       /\ files' = files \cup {path}
       /\ written' = Append(written, [path |-> path, by |-> g])
       /\ raised' = g
       /\ UNCHANGED returned
    \/ /\ raised' = g
       /\ UNCHANGED <<files, written, returned>>

\* the country dashboard normalising self.country_kpis in place
create_country_performance_dashboard_in_place ==
    /\ Invoke("create_country_performance_dashboard", {"country_kpis"})
    /\ normalized_matrix' =
           NormalizeFrame(NumericColumns(country_kpis,
               {"total_rentals", "avg_rating", "total_revenue"}))
    /\ country_kpis' =
           [c \in DOMAIN country_kpis |->
               IF c = "country" THEN country_kpis[c]
               ELSE [i \in DOMAIN country_kpis[c] |->
                        country_kpis[c][i] - ColMin(country_kpis[c])]]
    /\ SaveAndShow("create_country_performance_dashboard", CountryPng)
    /\ UNCHANGED <<genre_performance, customer_segments, monthly_trends,
                   actor_analysis, rankings, console>>

create_country_performance_dashboard ==
    /\ Invoke("create_country_performance_dashboard", {"country_kpis"})
    /\ normalized_matrix' =
           NormalizeFrame(NumericColumns(country_kpis,
               {"total_rentals", "avg_rating", "total_revenue"}))
    /\ SaveAndShow("create_country_performance_dashboard", CountryPng)
    /\ UNCHANGED <<tables, rankings, console>>

\* the genre analysis saving under the country dashboard's path
create_genre_analysis_wrong_path ==
    /\ Invoke("create_genre_analysis", {"genre_performance"})
    /\ rankings' =
           RankFrame(NumericColumns(genre_performance,
               {"avg_rating", "total_rentals", "avg_price"}))
    /\ SaveAndShow("create_genre_analysis", CountryPng)
    /\ UNCHANGED <<tables, normalized_matrix, console>>

create_genre_analysis ==
    /\ Invoke("create_genre_analysis", {"genre_performance"})
    /\ rankings' =
           RankFrame(NumericColumns(genre_performance,
               {"avg_rating", "total_rentals", "avg_price"}))
    /\ SaveAndShow("create_genre_analysis", GenrePng)
    /\ UNCHANGED <<tables, normalized_matrix, console>>

create_customer_segmentation_viz ==
    /\ Invoke("create_customer_segmentation_viz", {"customer_segments"})
    /\ SaveAndShow("create_customer_segmentation_viz", SegmentationPng)
    /\ UNCHANGED <<tables, normalized_matrix, rankings, console>>

create_temporal_analysis ==
    /\ Invoke("create_temporal_analysis", {"monthly_trends"})
    /\ SaveAndShow("create_temporal_analysis", TemporalPng)
    /\ UNCHANGED <<tables, normalized_matrix, rankings, console>>

\* fig.write_html(path), then the message, then return fig
create_interactive_dashboard ==
    /\ Invoke("create_interactive_dashboard",
              {"country_kpis", "genre_performance", "customer_segments",
               "monthly_trends"})
    /\ \/ /\ dir_exists
          /\ files' = files \cup {InteractiveHtml}
          /\ written' = Append(written,
                 [path |-> InteractiveHtml, by |-> "create_interactive_dashboard"])
          /\ Emit(<<InteractiveSavedMsg>>)
          /\ returned' = Append(returned, "create_interactive_dashboard")
          /\ raised' = "none"
       \/ /\ raised' = "create_interactive_dashboard"
          /\ UNCHANGED <<files, written, console, returned>>
    /\ UNCHANGED <<tables, normalized_matrix, rankings>>

-----------------------------------------------------------------------------
(* The orchestrator and the rest of __main__.                              *)

\* the call wrapped in try/except: the orchestrator goes on after a failure
AfterCall_swallowed(next) == next

\* where the orchestrator goes after a generator call: on, or out with the
\* exception
AfterCall(next) == IF raised' = "none" THEN next ELSE "crashed"

generate_all_visualizations ==
    /\ \/ /\ pc = "generate"
          /\ Emit(<<GeneratingMsg>>)
          /\ pc' = "print1"
          /\ UNCHANGED <<tables, files, written, calls, returned, raised,
                         reads, normalized_matrix, rankings>>
       \/ /\ pc = "print1"
          /\ Emit(<<ProgressMsg[1]>>)
          /\ pc' = "call1"
          /\ UNCHANGED <<tables, files, written, calls, returned, raised,
                         reads, normalized_matrix, rankings>>
       \/ /\ pc = "call1"
          /\ create_country_performance_dashboard
          /\ pc' = AfterCall("print2")
       \/ /\ pc = "print2"
          /\ Emit(<<ProgressMsg[2]>>)
          /\ pc' = "call2"
          /\ UNCHANGED <<tables, files, written, calls, returned, raised,
                         reads, normalized_matrix, rankings>>
       \/ /\ pc = "call2"
          /\ create_genre_analysis
          /\ pc' = AfterCall("print3")
       \/ /\ pc = "print3"
          /\ Emit(<<ProgressMsg[3]>>)
          /\ pc' = "call3"
          /\ UNCHANGED <<tables, files, written, calls, returned, raised,
                         reads, normalized_matrix, rankings>>
       \/ /\ pc = "call3"
          /\ create_customer_segmentation_viz
          /\ pc' = AfterCall("print4")
       \/ /\ pc = "print4"
          /\ Emit(<<ProgressMsg[4]>>)
          /\ pc' = "call4"
          /\ UNCHANGED <<tables, files, written, calls, returned, raised,
                         reads, normalized_matrix, rankings>>
       \/ /\ pc = "call4"
          /\ create_temporal_analysis
          /\ pc' = AfterCall("print5")
       \/ /\ pc = "print5"
          /\ Emit(<<ProgressMsg[5]>>)
          /\ pc' = "call5"
          /\ UNCHANGED <<tables, files, written, calls, returned, raised,
                         reads, normalized_matrix, rankings>>
       \/ /\ pc = "call5"
          /\ create_interactive_dashboard
          /\ pc' = AfterCall("success")
       \/ /\ pc = "success"
          /\ Emit(<<"", SuccessMsg, FilesSavedMsg>> \o FileListing)
          /\ pc' = "summary"
          /\ UNCHANGED <<tables, files, written, calls, returned, raised,
                         reads, normalized_matrix, rankings>>
    /\ UNCHANGED <<style_available, style, style_tried, rng, dir_exists, summary_tables,
                   run, prev_monthly_trends>>

\* the summary block printing len(actor_analysis) as the time period
SummaryBlock_wrong_table ==
    <<"", Separator, SummaryTitle, Separator,
      "Countries Analyzed: " \o ToString(DfLen(country_kpis)),
      "Genres Analyzed: " \o ToString(DfLen(genre_performance)),
      "Customer Segments: " \o ToString(DfLen(customer_segments)),
      "Time Period: " \o ToString(DfLen(actor_analysis)) \o " months",
      Separator>>

\* the lines of the summary block, from the tables whose len() it prints
SummaryBlock ==
    <<"", Separator, SummaryTitle, Separator,
      "Countries Analyzed: " \o ToString(DfLen(country_kpis)),
      "Genres Analyzed: " \o ToString(DfLen(genre_performance)),
      "Customer Segments: " \o ToString(DfLen(customer_segments)),
      "Time Period: " \o ToString(DfLen(monthly_trends)) \o " months",
      Separator>>

SummaryTables == {"country_kpis", "genre_performance", "customer_segments",
                  "monthly_trends"}

main_summary ==
    /\ pc = "summary"
    /\ Emit(SummaryBlock)
    /\ summary_tables' = SummaryTables
    /\ pc' = "done"
    /\ UNCHANGED <<style_available, style, style_tried, rng, tables, dir_exists, files,
                   written, calls, returned, raised, reads,
                   normalized_matrix, rankings, run, prev_monthly_trends>>

\* the program is run again: a new process, the same directory and files
rerun ==
    /\ pc \in {"done", "crashed"}
    /\ run < MaxRuns
    /\ run' = run + 1
    /\ prev_monthly_trends' = monthly_trends
    /\ pc' = "style1"
    /\ style' = "none"
    /\ style_tried' = << >>
    /\ console' = << >>
    /\ rng' \in 0..(RngStates - 1)
    /\ country_kpis' = Unset
    /\ genre_performance' = Unset
    /\ customer_segments' = Unset
    /\ monthly_trends' = Unset
    /\ actor_analysis' = Unset
    /\ written' = << >>
    /\ calls' = << >>
    /\ returned' = << >>
    /\ raised' = "none"
    /\ reads' = [g \in GeneratorNames |-> {}]
    /\ normalized_matrix' = Unset
    /\ rankings' = Unset
    /\ summary_tables' = {}
    /\ UNCHANGED <<style_available, dir_exists, files>>

Init ==
    /\ pc = "style1"
    /\ style_available \in SUBSET PreferredStyles
    /\ style = "none"
    /\ style_tried = << >>
    /\ console = << >>
    /\ rng \in 0..(RngStates - 1)
    /\ country_kpis = Unset
    /\ genre_performance = Unset
    /\ customer_segments = Unset
    /\ monthly_trends = Unset
    /\ actor_analysis = Unset
    /\ dir_exists \in BOOLEAN
    /\ files = {}
    /\ written = << >>
    /\ calls = << >>
    /\ returned = << >>
    /\ raised = "none"
    /\ reads = [g \in GeneratorNames |-> {}]
    /\ normalized_matrix = Unset
    /\ rankings = Unset
    /\ summary_tables = {}
    /\ run = 1
    /\ prev_monthly_trends = Unset

Next ==
    \/ select_style
    \/ main_header
    \/ MovieNowVisualizer_init
    \/ generate_all_visualizations
    \/ main_summary
    \/ rerun

Spec == Init /\ [][Next]_vars

-----------------------------------------------------------------------------
(* A client of the class: it holds a constructed MovieNowVisualizer and    *)
(* calls the generator methods itself, in any order; an exception raised   *)
(* by a generator reaches the client, which carries on.                    *)

ConstructedInstance ==
    /\ pc = "client"
    /\ style_available = PreferredStyles
    /\ style = "seaborn-v0_8"
    /\ style_tried = <<"seaborn-v0_8">>
    /\ console = << >>
    /\ rng = RngAdvance(Seed(42), 3 * Len(DateRange(2018, 2019)))
    /\ customer_segments = CustomerSegments
    /\ monthly_trends = MonthlyTrends(Seed(42))
    /\ actor_analysis = ActorAnalysis
    /\ dir_exists = TRUE
    /\ files = {}
    /\ written = << >>
    /\ calls = << >>
    /\ returned = << >>
    /\ raised = "none"
    /\ reads = [g \in GeneratorNames |-> {}]
    /\ normalized_matrix = Unset
    /\ rankings = Unset
    /\ summary_tables = {}
    /\ run = 1
    /\ prev_monthly_trends = Unset

InitLib ==
    /\ ConstructedInstance
    /\ country_kpis = CountryKpis
    /\ genre_performance = GenrePerformance

client_call ==
    /\ pc = "client"
    /\ Len(calls) < MaxCalls
    /\ \/ create_country_performance_dashboard
       \/ create_genre_analysis
       \/ create_customer_segmentation_viz
       \/ create_temporal_analysis
       \/ create_interactive_dashboard
    /\ UNCHANGED <<pc, style_available, style, style_tried, rng, dir_exists,
                   summary_tables, run, prev_monthly_trends>>

NextLib == client_call

SpecLib == InitLib /\ [][NextLib]_vars

-----------------------------------------------------------------------------
(* The statistics on any column: the instance's country and genre tables   *)
(* hold arbitrary columns, and the two generators that normalise and rank  *)
(* are called, each at most once, in either order.                         *)

ArbitraryColumns == UNION {[1..n -> 0..MaxVal] : n \in 1..MaxRows}

RowLabels(n) == [i \in 1..n |-> "row" \o ToString(i)]
Reversed(col) == [i \in DOMAIN col |-> col[Len(col) + 1 - i]]
Complemented(col) == [i \in DOMAIN col |-> MaxVal - col[i]]

InitStats ==
    /\ ConstructedInstance
    /\ \E col \in ArbitraryColumns :
        /\ country_kpis =
               [country       |-> RowLabels(Len(col)),
                total_rentals |-> col,
                avg_rating    |-> Reversed(col),
                total_revenue |-> Complemented(col)]
        /\ genre_performance =
               [genre         |-> RowLabels(Len(col)),
                avg_rating    |-> col,
                total_rentals |-> Reversed(col),
                avg_price     |-> Complemented(col)]

stats_call ==
    /\ pc = "client"
    /\ \/ /\ "create_country_performance_dashboard" \notin Range(calls)
          /\ create_country_performance_dashboard
       \/ /\ "create_genre_analysis" \notin Range(calls)
          /\ create_genre_analysis
    /\ UNCHANGED <<pc, style_available, style, style_tried, rng, dir_exists,
                   summary_tables, run, prev_monthly_trends>>

NextStats == stats_call

SpecStats == InitStats /\ [][NextStats]_vars

-----------------------------------------------------------------------------
(* The claims.                                                             *)

\* positions of a run before the visualizer is constructed
BeforeConstruction == {"style1", "style2", "style3", "main", "construct"}

\* positions of a run inside or after the orchestrator, the run not failed
Orchestrating == {"generate", "print1", "call1", "print2", "call2", "print3",
                  "call3", "print4", "call4", "print5", "call5", "success",
                  "summary", "done"}

DocumentedFiles ==
    {"visualizations/country_performance_dashboard.png",
     "visualizations/genre_analysis.png",
     "visualizations/customer_segmentation.png",
     "visualizations/temporal_analysis.png",
     "visualizations/interactive_dashboard.html"}

\* C1: the output directory exists from the construction of the visualizer
\* on, hence before any generator writes, whether or not it existed before
\* the run; and a complete run has written exactly the five documented
\* files, each once and each by a generator of its own.
C1_FiveFilesWritten ==
    /\ pc \in Orchestrating => dir_exists
    /\ written # << >> => dir_exists
    /\ pc = "done" =>
          /\ Len(written) = 5
          /\ {written[i].path : i \in DOMAIN written} = DocumentedFiles
          /\ files = DocumentedFiles
          /\ \A i, j \in DOMAIN written :
                i # j => /\ written[i].path # written[j].path
                         /\ written[i].by # written[j].by

\* C1 happens: a run is complete and has written files
C1_Witness == pc = "done" /\ Len(written) = 5 /\ run = 1

\* the lines of the console that report the status of the run: the
\* progress and result messages, not the blank lines, separators, list
\* items and statistics
StatusLines ==
    {"Checking matplotlib configuration...", StyleNote, GeneratingMsg,
     InteractiveSavedMsg, SuccessMsg, FilesSavedMsg}
    \cup Range(ProgressMsg)

StatusPrinted == SelectSeq(console, LAMBDA l : l \in StatusLines)

\* the position of the first occurrence of line l on the console, 0 if none
PositionOf(l) ==
    IF l \in Range(console)
        THEN CHOOSE i \in DOMAIN console :
                 console[i] = l /\ \A j \in 1..(i - 1) : console[j] # l
        ELSE 0

\* C2 as stated: in a complete run the success message is the final status
\* line, no status line is printed after it.
C2_SuccessIsFinalStatusLine ==
    pc = "done" =>
        /\ StatusPrinted # << >>
        /\ StatusPrinted[Len(StatusPrinted)] = SuccessMsg

\* C2 amended: the success message is printed at most once and only after
\* all five generators have returned and all their progress and result
\* messages are out; what follows it in a complete run is the line "Files
\* saved in ..." with the five file names and then the summary block.
C2_SuccessAfterGenerators ==
    /\ Cardinality({i \in DOMAIN console : console[i] = SuccessMsg}) <= 1
    /\ SuccessMsg \in Range(console) =>
          /\ Len(returned) = 5
          /\ Range(returned) = GeneratorNames
          /\ \A l \in Range(ProgressMsg) \cup {GeneratingMsg, InteractiveSavedMsg} :
                /\ l \in Range(console)
                /\ \A i \in DOMAIN console :
                      console[i] = l => i < PositionOf(SuccessMsg)
    /\ pc = "done" =>
          /\ SuccessMsg \in Range(console)
          /\ SubSeq(console, PositionOf(SuccessMsg) + 1, Len(console))
                = <<FilesSavedMsg>> \o FileListing \o SummaryBlock

\* C2 happens: a complete run has printed the success message
C2_Witness == pc = "done" /\ SuccessMsg \in Range(console)

\* the number of rows of a frame all of whose columns have the same length
RowCount(df, n) == \A c \in DOMAIN df : Len(df[c]) = n

\* C3: once the dataset builder has finished, the tables have 7, 7, 4, 24
\* and 6 rows at every later point of the run.
C3_RowCounts ==
    pc \notin BeforeConstruction =>
        /\ RowCount(country_kpis, 7)
        /\ RowCount(genre_performance, 7)
        /\ RowCount(customer_segments, 4)
        /\ RowCount(monthly_trends, 24)
        /\ RowCount(actor_analysis, 6)

\* C3 happens: the tables are built and generators have run on them
C3_Witness ==
    /\ pc = "call4"
    /\ Len(returned) = 3
    /\ RowCount(monthly_trends, 24)

\* a quotient <<n, d>> compared with 0 and 1; 0/0 is neither
QuotientIsZero(q) == q[2] # 0 /\ q[1] = 0
QuotientIsOne(q) == q[2] # 0 /\ q[1] = q[2]
QuotientStrictlyBetween(q) ==
    /\ q[2] # 0
    /\ 0 < q[1] * q[2]
    /\ q[1] * q[2] < q[2] * q[2]

NormalizedColumns == {"total_rentals", "avg_rating", "total_revenue"}

\* C4: in the matrix the country dashboard has computed, for each of the
\* three normalised columns whose values are not all equal, a row holding
\* the column minimum is 0, a row holding the column maximum is 1, and
\* every other row is strictly between 0 and 1.
C4_MinMaxNormalization ==
    "create_country_performance_dashboard" \in Range(calls) =>
        /\ DOMAIN normalized_matrix = NormalizedColumns
        /\ \A c \in NormalizedColumns :
              LET col == country_kpis[c]
                  nm  == normalized_matrix[c]
              IN  /\ DOMAIN nm = DOMAIN col
                  /\ ColMin(col) # ColMax(col) =>
                        \A i \in DOMAIN col :
                           /\ col[i] = ColMin(col) => QuotientIsZero(nm[i])
                           /\ col[i] = ColMax(col) => QuotientIsOne(nm[i])
                           /\ (col[i] # ColMin(col) /\ col[i] # ColMax(col))
                                 => QuotientStrictlyBetween(nm[i])

\* C4 happens: a column with a minimum, a maximum and a value in between
\* has been normalised
C4_Witness ==
    /\ "create_country_performance_dashboard" \in Range(calls)
    /\ \E i, j, k \in DOMAIN country_kpis.total_rentals :
          /\ country_kpis.total_rentals[i] < country_kpis.total_rentals[j]
          /\ country_kpis.total_rentals[j] < country_kpis.total_rentals[k]

RECURSIVE SumTo(_, _)
\* the sum of the first n entries of a sequence of numbers
SumTo(seq, n) == IF n = 0 THEN 0 ELSE seq[n] + SumTo(seq, n - 1)

RankedColumns == {"avg_rating", "total_rentals", "avg_price"}

\* C5: in the rankings the genre analysis has computed (kept doubled), for
\* each of the three columns of N values: a larger value has a smaller
\* rank; equal values have equal ranks; the ranks add up to 1 + ... + N;
\* a tied group of e values behind g larger ones has the mean of the
\* positions g+1..g+e; and without duplicates the ranks are a permutation
\* of 1..N whose rank 1 is the largest value.
C5_DescendingRanks ==
    "create_genre_analysis" \in Range(calls) =>
        /\ DOMAIN rankings = RankedColumns
        /\ \A c \in RankedColumns :
              LET col == genre_performance[c]
                  rk  == rankings[c]
                  N   == Len(col)
              IN  /\ DOMAIN rk = DOMAIN col
                  /\ \A i, j \in DOMAIN col :
                        /\ col[i] > col[j] => rk[i] < rk[j]
                        /\ col[i] = col[j] => rk[i] = rk[j]
                  /\ SumTo(rk, N) = N * (N + 1)
                  /\ \A i \in DOMAIN col :
                        LET above == {j \in DOMAIN col : col[j] > col[i]}
                            group == {j \in DOMAIN col : col[j] = col[i]}
                            first == Cardinality(above) + 1
                            last  == Cardinality(above) + Cardinality(group)
                        IN  rk[i] = first + last
                  /\ Cardinality(Range(col)) = N =>
                        /\ {rk[i] : i \in DOMAIN col} = {2 * k : k \in 1..N}
                        /\ \A i \in DOMAIN col :
                              rk[i] = 2 <=> col[i] = ColMax(col)

\* C5 happens: a column of three values with a tie has been ranked, and so
\* has one without
C5_Witness ==
    /\ "create_genre_analysis" \in Range(calls)
    /\ Len(genre_performance.avg_rating) = 3
    /\ genre_performance.avg_rating[1] = genre_performance.avg_rating[2]
    /\ genre_performance.avg_rating[3] > genre_performance.avg_rating[1]
    /\ rankings.avg_rating = <<5, 5, 2>>

\* C6: the monthly trends built by an execution of the program equal the
\* ones built by the execution before it, whatever state the random
\* generator was in when either started; they are the first 24, the next
\* 24 and the following 24 draws after seeding with 42, as rentals,
\* revenue and new_customers.
C6_SeededDeterminism ==
    pc \notin BeforeConstruction =>
        /\ run > 1 => monthly_trends = prev_monthly_trends
        /\ monthly_trends.rentals = NormalInts(42 % RngStates, 800, 150, 24)
        /\ monthly_trends.revenue =
              NormalInts((42 + 24) % RngStates, 5600, 1050, 24)
        /\ monthly_trends.new_customers =
              NormalInts((42 + 48) % RngStates, 45, 12, 24)

\* C6 happens: a second execution has built its tables
C6_Witness ==
    /\ run = 2
    /\ pc = "generate"
    /\ RowCount(prev_monthly_trends, 24)
    /\ RowCount(monthly_trends, 24)

\* C7 as stated: the closing summary of a complete run reports the row
\* count of every one of the five tables.
C7_SummaryOfEveryTable == pc = "done" => summary_tables = TableNames

\* C7 amended: the closing summary is printed only after all five
\* generators have returned; it ends the console of a complete run and
\* reports the row counts of four tables, 7 countries, 7 genres, 4 customer
\* segments and 24 months, and not the one of actor_analysis.
C7_SummaryOfFourTables ==
    /\ (summary_tables # {} \/ SummaryTitle \in Range(console)) =>
          /\ pc = "done"
          /\ Len(returned) = 5
          /\ Range(returned) = GeneratorNames
    /\ pc = "done" =>
          /\ summary_tables = TableNames \ {"actor_analysis"}
          /\ Len(console) >= 9
          /\ SubSeq(console, Len(console) - 8, Len(console)) =
                <<"", Separator, SummaryTitle, Separator,
                  "Countries Analyzed: 7",
                  "Genres Analyzed: 7",
                  "Customer Segments: 4",
                  "Time Period: 24 months",
                  Separator>>

\* C7 happens: a complete run has printed its summary
C7_Witness == pc = "done" /\ SummaryTitle \in Range(console)

FixedOrder ==
    <<"create_country_performance_dashboard",
      "create_genre_analysis",
      "create_customer_segmentation_viz",
      "create_temporal_analysis",
      "create_interactive_dashboard">>

NumberedMessage ==
    <<"1. Creating Country Performance Dashboard...",
      "2. Creating Genre Analysis...",
      "3. Creating Customer Segmentation...",
      "4. Creating Temporal Analysis...",
      "5. Creating Interactive Dashboard...">>

\* C8: the generators invoked so far are always the first ones of the fixed
\* order, each once, whatever the earlier calls did, and a complete run has
\* invoked all five; the k-th generator is invoked in a step taken when the
\* last line of the console is the k-th numbered message and every
\* generator invoked before has returned.
C8_FixedSequence ==
    /\ [](/\ Len(calls) <= 5
          /\ calls = SubSeq(FixedOrder, 1, Len(calls))
          /\ (pc = "done" => calls = FixedOrder /\ returned = FixedOrder))
    /\ [][calls' # calls /\ calls' # << >> =>
             /\ Len(calls') = Len(calls) + 1
             /\ calls'[Len(calls')] = FixedOrder[Len(calls')]
             /\ console # << >>
             /\ console[Len(console)] = NumberedMessage[Len(calls')]
             /\ returned = calls]_vars

\* C8 happens: the fifth generator has been invoked, after four that
\* returned
C8_Witness ==
    /\ Len(calls) = 5
    /\ calls[5] = "create_interactive_dashboard"
    /\ Len(returned) >= 4

\* C9: whatever generators a client has called on an instance, in whatever
\* order and with whatever outcome, the five tables are the ones the
\* dataset builder produced, and no generator has read actor_analysis.
C9_TablesReadOnly ==
    /\ country_kpis = CountryKpis
    /\ genre_performance = GenrePerformance
    /\ customer_segments = CustomerSegments
    /\ monthly_trends = MonthlyTrends(42 % RngStates)
    /\ actor_analysis = ActorAnalysis
    /\ \A g \in GeneratorNames : "actor_analysis" \notin reads[g]

\* C9 happens: generators have been called out of the orchestrator's order
C9_Witness ==
    /\ Len(returned) = 2
    /\ returned[1] = "create_interactive_dashboard"
    /\ returned[2] = "create_country_performance_dashboard"
    /\ reads["create_interactive_dashboard"] # {}

\* C10: when a generator has failed, the run is over with the failure
\* uncaught: the failed generator is the last one invoked and was invoked
\* once, every generator before it returned, neither the success message
\* nor the summary is on the console, and every file written before the
\* failure is in the output directory.
C10_FailureTerminates ==
    raised \in GeneratorNames =>
        /\ pc = "crashed"
        /\ calls # << >>
        /\ calls[Len(calls)] = raised
        /\ Cardinality({i \in DOMAIN calls : calls[i] = raised}) = 1
        /\ returned = SubSeq(calls, 1, Len(calls) - 1)
        /\ SuccessMsg \notin Range(console)
        /\ SummaryTitle \notin Range(console)
        /\ summary_tables = {}
        /\ \A i \in DOMAIN written : written[i].path \in files

\* C10 happens: the third generator failed after two had written their files
C10_Witness ==
    /\ pc = "crashed"
    /\ raised = "create_customer_segmentation_viz"
    /\ Len(returned) = 2
    /\ {CountryPng, GenrePng} \subseteq files

\* the order in which the styles are to be tried
StyleOrder == <<"seaborn-v0_8", "seaborn", "default">>

\* can plt.style.use load the style: 'default' always, the others if installed
StyleLoads(st) == st = "default" \/ st \in style_available

\* C11: the styles tried so far are always the first ones of the order
\* seaborn-v0_8, seaborn, default, and each one tried before the last was
\* unavailable; once the selection is over, the style applied is the last
\* one tried and the first of the order that loads, so none after it was
\* tried; the note is on the console, once, exactly when neither preferred
\* style is available and the default is applied, and never before the
\* selection is over; and the selection never ends the run: while it lasts
\* nothing is raised and it has a next step, and it ends in __main__.
C11_StyleFallback ==
    /\ Len(style_tried) <= 3
    /\ style_tried = SubSeq(StyleOrder, 1, Len(style_tried))
    /\ \A i \in 1..(Len(style_tried) - 1) : ~StyleLoads(style_tried[i])
    /\ Cardinality({i \in DOMAIN console : console[i] = StyleNote}) <= 1
    /\ pc \in {"style1", "style2", "style3"} =>
          /\ style = "none"
          /\ raised = "none"
          /\ StyleNote \notin Range(console)
          /\ ENABLED select_style
    /\ pc \notin {"style1", "style2", "style3"} =>
          /\ style_tried # << >>
          /\ style = style_tried[Len(style_tried)]
          /\ StyleLoads(style)
          /\ StyleNote \in Range(console)
                <=> (style_available \cap PreferredStyles = {})
          /\ StyleNote \in Range(console) <=> style = "default"
    /\ pc = "crashed" => raised # "none" /\ style # "none"

\* C11 happens: the first style was unavailable, the second was applied,
\* the third was not tried and no note was printed
C11_Witness ==
    /\ pc = "main"
    /\ style_tried = <<"seaborn-v0_8", "seaborn">>
    /\ style = "seaborn"
    /\ StyleNote \notin Range(console)

\* C11 happens as well with both preferred styles unavailable: the default
\* is applied with the note
C11_WitnessDefault ==
    /\ pc = "main"
    /\ style_tried = StyleOrder
    /\ style = "default"
    /\ console = <<StyleNote>>

=============================================================================
